---------------------------- MODULE Spec2Model ----------------------------
(***************************************************************************)
(* A model of v_frame: ChromaSubsampling (src/src/chroma.rs), FrameBuilder *)
(* and Frame (src/src/frame.rs), Plane and PlaneGeometry                   *)
(* (src/src/plane.rs).                                                     *)
(*                                                                         *)
(* Encodings.  Option<T>: None is <<>>, Some(v) is <<v>>.  Error values    *)
(* are tuples whose head is the variant name: <<"DataLength", expected,    *)
(* found>>, <<"UnsupportedBitDepth", found>>, <<"DataTypeMismatch">>,      *)
(* <<"UnsupportedResolution">>, <<"InvalidStride", stride, width>>.        *)
(* Result<T, Error> is a record [tag, val] with tag "Ok" or "Err"; a       *)
(* panic that unwinds out of the call is tag "Panic".  The type parameter  *)
(* T: Pixel is its byte width size_of::<T>(), 1 for u8 and 2 for u16.      *)
(* Slices are 1-based sequences: Rust index i is TLA+ index i + 1.         *)
(***************************************************************************)
EXTENDS Integers, Sequences, FiniteSets, TLC

(***************************************************************************)
(* Bounds of the model.                                                    *)
(***************************************************************************)
\* widths and heights given to FrameBuilder::new are 1..MaxDim
MaxDim == 4
\* values given to the luma_padding_* setters are 0..MaxPad
MaxPad == 2
\* BIT_DEPTH ranges over (8 - DepthSlack)..(16 + DepthSlack)
DepthSlack == 2
\* the planes operated on come from frames of width and height 1..OpMaxDim
OpMaxDim == 2
\* ... and luma paddings 0..OpMaxPad
OpMaxPad == 1
\* coordinates given to row, pixel and their _mut forms are 0..MaxCoord
MaxCoord == 2
\* input strides given to copy_from_u8_slice_with_stride are 1..MaxStride
MaxStride == 3
\* source slices have 0..MaxSrcLen elements
MaxSrcLen == 8
\* source slices count up from a first value in 0..MaxBase
MaxBase == 0
\* at most MaxOps operations are done on a plane
MaxOps == 2

\* the luma dimensions given to chroma_dimensions: 0..MaxLuma
MaxLuma == 5

\* frames whose planes are written and cloned: dimensions 1..MaxFrameDim,
\* left and top luma padding 0..MaxFramePad, at most MaxFrameOps writes
MaxFrameDim == 2

MaxFramePad == 2

MaxFrameOps == 2

\* builders that are configured, built and made anew: padding values
\* 0..MaxSetPad, at most MaxBuilderOps calls
MaxSetPad == 1

MaxBuilderOps == 4

\* the plane calls made on a frame built near the word's limits
MaxWordOps == 1

(***************************************************************************)
(* Machine integers.  usize is modelled as a 15-bit word so that every     *)
(* product of two words stays inside TLC's 32-bit integers; isize::MAX,    *)
(* the largest allocation, is half of it.                                  *)
(***************************************************************************)
UsizeMax == 32767

IsizeMax == UsizeMax \div 2

\* usize::saturating_add / NonZeroUsize::saturating_add
saturating_add(a, b) == IF b > UsizeMax - a THEN UsizeMax ELSE a + b

\* a * b on usize: with overflow checks (debug profile) an overflow panics,
\* None; without them (release profile) the product wraps.
usize_mul(a, b, overflow_checks) ==
    IF a * b <= UsizeMax THEN <<a * b>>
    ELSE IF overflow_checks THEN <<>>
    ELSE <<(a * b) % (UsizeMax + 1)>>

None == <<>>

Some(v) == <<v>>

IsSome(o) == Len(o) = 1

IsNone(o) == Len(o) = 0

Ok(v) == [tag |-> "Ok", val |-> v]

Err(e) == [tag |-> "Err", val |-> e]

Panic(msg) == [tag |-> "Panic", val |-> msg]

(***************************************************************************)
(* pixel.rs: the two Pixel implementations, by byte width.                 *)
(***************************************************************************)
PixelTypes == {1, 2}

\* T::zero()
PixelZero == 0

(***************************************************************************)
(* chroma.rs                                                               *)
(***************************************************************************)
ChromaSubsampling == {"Yuv420", "Yuv422", "Yuv444", "Monochrome"}

has_chroma(ss) == ss # "Monochrome"

subsample_ratio(ss) ==
    CASE ss = "Yuv420" -> Some(<<2, 2>>)
      [] ss = "Yuv422" -> Some(<<2, 1>>)
      [] ss = "Yuv444" -> Some(<<1, 1>>)
      [] ss = "Monochrome" -> None

\* Dimensions that are rounded down instead of refused.
chroma_dimensions_rounded(ss, luma_width, luma_height) ==
    LET subsample == subsample_ratio(ss) IN
    IF IsNone(subsample) THEN None
    ELSE Some(<<luma_width \div subsample[1][1], luma_height \div subsample[1][2]>>)

chroma_dimensions(ss, luma_width, luma_height) ==
    LET subsample == subsample_ratio(ss) IN
    IF IsNone(subsample) THEN None
    ELSE LET ss_x == subsample[1][1]
             ss_y == subsample[1][2]
         IN  IF luma_width % ss_x = 0 /\ luma_height % ss_y = 0
             THEN Some(<<luma_width \div ss_x, luma_height \div ss_y>>)
             ELSE None

(***************************************************************************)
(* plane.rs: PlaneGeometry and Plane::new                                  *)
(***************************************************************************)
PlaneGeometry(w, h, s, pl, pr, pt, pb) ==
    [width |-> w, height |-> h, stride |-> s,
     pad_left |-> pl, pad_right |-> pr, pad_top |-> pt, pad_bottom |-> pb]

\* A length that counts the visible rows only.
PlaneNewLen_visible_rows(geometry, overflow_checks) ==
    usize_mul(geometry.stride, geometry.height, overflow_checks)

\* The number of elements Plane::new asks for: stride * rows, None when the
\* multiplication panics.
PlaneNewLen(geometry, overflow_checks) ==
    LET rows == saturating_add(saturating_add(geometry.height, geometry.pad_top),
                               geometry.pad_bottom)
    IN  usize_mul(geometry.stride, rows, overflow_checks)

\* AVec::from_iter: a buffer of more than isize::MAX bytes cannot be
\* allocated (capacity overflow).
AllocFails(len, T) == len * T > IsizeMax

\* A plane whose buffer is allocated but keeps what the memory held.
PlaneNew_not_zeroed(geometry, T, overflow_checks) ==
    LET len == PlaneNewLen(geometry, overflow_checks) IN
    IF IsNone(len) \/ AllocFails(len[1], T) THEN None
    ELSE Some([data |-> [i \in 1..len[1] |-> i % 256], geometry |-> geometry])

\* Plane::new: Some(plane), zero-filled, or None when it panics.
PlaneNew(geometry, T, overflow_checks) ==
    LET len == PlaneNewLen(geometry, overflow_checks) IN
    IF IsNone(len) \/ AllocFails(len[1], T) THEN None
    ELSE Some([data |-> [i \in 1..len[1] |-> PixelZero], geometry |-> geometry])

(***************************************************************************)
(* frame.rs: FrameBuilder                                                  *)
(***************************************************************************)
FrameBuilderNew(width, height, subsampling) ==
    [width |-> width, height |-> height, subsampling |-> subsampling,
     luma_padding_left |-> 0, luma_padding_right |-> 0,
     luma_padding_top |-> 0, luma_padding_bottom |-> 0]

\* build: the bit depth check
UnsupportedDepth(BIT_DEPTH) == BIT_DEPTH < 8 \/ BIT_DEPTH > 16

\* A kind check that lets u16 through at depth 8.
TypeMismatch_u16_at_8(T, BIT_DEPTH) ==
    (T = 1 /\ BIT_DEPTH # 8) \/ (T = 2 /\ BIT_DEPTH < 8)

\* build: the element kind / bit depth check
TypeMismatch(T, BIT_DEPTH) ==
    (T = 1 /\ BIT_DEPTH # 8) \/ (T = 2 /\ BIT_DEPTH <= 8)

\* A stride that forgets the right padding.
LumaStride_no_right(b) == saturating_add(b.width, b.luma_padding_left)

LumaStride(b) ==
    saturating_add(saturating_add(b.width, b.luma_padding_left),
                   b.luma_padding_right)

LumaGeometry(b) ==
    PlaneGeometry(b.width, b.height, LumaStride(b),
                  b.luma_padding_left, b.luma_padding_right,
                  b.luma_padding_top, b.luma_padding_bottom)

\* A padding check that tests all four sides against the horizontal ratio.
PaddingMisaligned_all_x(b, ss_x, ss_y) ==
    \/ b.luma_padding_left % ss_x > 0
    \/ b.luma_padding_right % ss_x > 0
    \/ b.luma_padding_top % ss_x > 0
    \/ b.luma_padding_bottom % ss_x > 0

\* build: some luma padding is not a multiple of its axis ratio
PaddingMisaligned(b, ss_x, ss_y) ==
    \/ b.luma_padding_left % ss_x > 0
    \/ b.luma_padding_right % ss_x > 0
    \/ b.luma_padding_top % ss_y > 0
    \/ b.luma_padding_bottom % ss_y > 0

ChromaStride(chroma_width, chroma_padding_left, chroma_padding_right) ==
    saturating_add(saturating_add(chroma_width, chroma_padding_left),
                   chroma_padding_right)

\* A chroma geometry that takes the luma paddings undivided.
ChromaGeometry_luma_padding(b, dims, ss_x, ss_y) ==
    PlaneGeometry(dims[1], dims[2],
                  ChromaStride(dims[1], b.luma_padding_left, b.luma_padding_right),
                  b.luma_padding_left, b.luma_padding_right,
                  b.luma_padding_top, b.luma_padding_bottom)

ChromaGeometry(b, dims, ss_x, ss_y) ==
    LET chroma_padding_left == b.luma_padding_left \div ss_x
        chroma_padding_right == b.luma_padding_right \div ss_x
        chroma_padding_top == b.luma_padding_top \div ss_y
        chroma_padding_bottom == b.luma_padding_bottom \div ss_y
    IN  PlaneGeometry(dims[1], dims[2],
                      ChromaStride(dims[1], chroma_padding_left, chroma_padding_right),
                      chroma_padding_left, chroma_padding_right,
                      chroma_padding_top, chroma_padding_bottom)

\* A frame that drops its second chroma plane.
Frame_without_v(y, u, v, ss) ==
    [y_plane |-> y, u_plane |-> u, v_plane |-> None, subsampling |-> ss]

Frame(y, u, v, ss) ==
    [y_plane |-> y, u_plane |-> u, v_plane |-> v, subsampling |-> ss]

\* The planes are allocated, each by Plane::new; a panic in any of them
\* unwinds out of build.
BuildFrame(b, T, luma_geometry, chroma_geometry, overflow_checks) ==
    LET y == PlaneNew(luma_geometry, T, overflow_checks) IN
    IF IsNone(chroma_geometry)
    THEN IF IsNone(y) THEN Panic("Plane::new")
         ELSE Ok(Frame(y[1], None, None, b.subsampling))
    ELSE LET u == PlaneNew(chroma_geometry[1], T, overflow_checks)
             v == PlaneNew(chroma_geometry[1], T, overflow_checks)
         IN  IF IsNone(y) \/ IsNone(u) \/ IsNone(v) THEN Panic("Plane::new")
             ELSE Ok(Frame(y[1], u, v, b.subsampling))

\* FrameBuilder::build after its two type checks: the geometry, the
\* resolution and padding checks, the planes.
BuildChecked(b, T, overflow_checks) ==
    IF ~has_chroma(b.subsampling)
    THEN BuildFrame(b, T, LumaGeometry(b), None, overflow_checks)
    ELSE LET dims == chroma_dimensions(b.subsampling, b.width, b.height) IN
         IF IsNone(dims) THEN Err(<<"UnsupportedResolution">>)
         ELSE LET ratio == subsample_ratio(b.subsampling)[1] IN
              IF PaddingMisaligned(b, ratio[1], ratio[2])
              THEN Err(<<"UnsupportedResolution">>)
              ELSE LET chroma_geometry ==
                           ChromaGeometry(b, dims[1], ratio[1], ratio[2])
                   IN  IF chroma_geometry.width = 0 \/ chroma_geometry.height = 0
                          \/ chroma_geometry.stride = 0
                       THEN Panic("cannot be zero")
                       ELSE BuildFrame(b, T, LumaGeometry(b),
                                       Some(chroma_geometry), overflow_checks)

\* A build that tests the element kind before the bit depth.
build_kind_first(b, T, BIT_DEPTH, overflow_checks) ==
    IF TypeMismatch(T, BIT_DEPTH) THEN Err(<<"DataTypeMismatch">>)
    ELSE IF UnsupportedDepth(BIT_DEPTH) THEN Err(<<"UnsupportedBitDepth", BIT_DEPTH>>)
    ELSE BuildChecked(b, T, overflow_checks)

\* FrameBuilder::build::<T, BIT_DEPTH>()
build(b, T, BIT_DEPTH, overflow_checks) ==
    IF UnsupportedDepth(BIT_DEPTH) THEN Err(<<"UnsupportedBitDepth", BIT_DEPTH>>)
    ELSE IF TypeMismatch(T, BIT_DEPTH) THEN Err(<<"DataTypeMismatch">>)
    ELSE BuildChecked(b, T, overflow_checks)

(***************************************************************************)
(* plane.rs: the operations of Plane<T>.  A sub-slice of the buffer is a   *)
(* window [off, len]: the elements data[off .. off + len] (0-based).       *)
(***************************************************************************)
Min(a, b) == IF a < b THEN a ELSE b

\* a + b on usize, as usize_mul
usize_add(a, b, overflow_checks) ==
    IF a + b <= UsizeMax THEN <<a + b>>
    ELSE IF overflow_checks THEN <<>>
    ELSE <<(a + b) % (UsizeMax + 1)>>

\* An origin that forgets the left padding.
data_origin_no_left(p) == p.geometry.stride * p.geometry.pad_top

data_origin(p) == p.geometry.stride * p.geometry.pad_top + p.geometry.pad_left

\* slice.chunks(n) over the window [off, len]
Chunks(off, len, n) ==
    [k \in 1..((len + n - 1) \div n) |->
        [off |-> off + (k - 1) * n, len |-> Min(n, len - (k - 1) * n)]]

\* iterator.take(k)
Take(s, k) == SubSeq(s, 1, Min(k, Len(s)))

\* The windows rows() and rows_mut() yield: data[origin..] in chunks of
\* stride, the first height of them, each cut to its first width elements.
\* (get_unchecked: undefined behaviour when origin is past the buffer or a
\* chunk is shorter than width.)
RowChunks(p, origin) ==
    Take(Chunks(origin, Len(p.data) - origin, p.geometry.stride), p.geometry.height)

RowWindowsAt(p, origin) ==
    LET chunks == RowChunks(p, origin) IN
    [k \in DOMAIN chunks |-> [off |-> chunks[k].off, len |-> p.geometry.width]]

RowWindows(p) == RowWindowsAt(p, data_origin(p))

Slice(data, w) == SubSeq(data, w.off + 1, w.off + w.len)

rows(p) ==
    LET ws == RowWindows(p) IN [k \in DOMAIN ws |-> Slice(p.data, ws[k])]

RECURSIVE Flatten(_)
Flatten(ss) == IF ss = <<>> THEN <<>> ELSE Head(ss) \o Flatten(Tail(ss))

pixels(p) == Flatten(rows(p))

\* A lookup that clamps y to the last element.
Nth_clamped(s, y) ==
    IF y < Len(s) THEN Some(s[y + 1])
    ELSE IF Len(s) > 0 THEN Some(s[Len(s)]) ELSE None

\* iterator.nth(y)
Nth(s, y) == IF y < Len(s) THEN Some(s[y + 1]) ELSE None

row(p, y) == Nth(rows(p), y)

\* the buffer offsets of a window, in order
WindowOffsets(w) == [i \in 1..w.len |-> w.off + i - 1]

\* The buffer offsets pixels_mut() yields, in order: rows_mut().flatten()
PixelOffsets(p) ==
    LET ws == RowWindows(p) IN
    Flatten([k \in DOMAIN ws |-> WindowOffsets(ws[k])])

\* dests.zip(vals) { *dest = *val }: the buffer after the elements at offs
\* are assigned from vals, pairwise, up to the shorter of the two.
RECURSIVE AssignFrom(_, _, _, _)
AssignFrom(data, offs, vals, j) ==
    IF j > Len(offs) \/ j > Len(vals) THEN data
    ELSE AssignFrom([data EXCEPT ![offs[j] + 1] = vals[j]], offs, vals, j + 1)

Assign(data, offs, vals) == AssignFrom(data, offs, vals, 1)

\* A lookup that refuses coordinates outside the visible rectangle.
pixel_index_visible(p, x, y, overflow_checks) ==
    IF x < p.geometry.width /\ y < p.geometry.height
    THEN Some(data_origin(p) + p.geometry.stride * y + x)
    ELSE Some(Len(p.data))

\* An index that takes x for the row and y for the column.
pixel_index_transposed(p, x, y, overflow_checks) ==
    Some(data_origin(p) + p.geometry.stride * x + y)

\* pixel / pixel_mut: the index origin + stride * y + x, None when the
\* arithmetic panics.
pixel_index(p, x, y, overflow_checks) ==
    LET sy == usize_mul(p.geometry.stride, y, overflow_checks) IN
    IF IsNone(sy) THEN None
    ELSE LET oy == usize_add(data_origin(p), sy[1], overflow_checks) IN
         IF IsNone(oy) THEN None
         ELSE usize_add(oy[1], x, overflow_checks)

\* slice.get(index)
Get(data, index) == IF index < Len(data) THEN Some(data[index + 1]) ELSE None

pixel(p, x, y, overflow_checks) ==
    LET index == pixel_index(p, x, y, overflow_checks) IN
    IF IsNone(index) THEN Panic("overflow") ELSE Ok(Get(p.data, index[1]))

\* What a plane operation gives: its return value and the plane after it.
Outcome(ret, p) == [ret |-> ret, plane |-> p]

\* pixel_mut(x, y), and the caller assigning v through the reference.
pixel_mut(p, x, y, v, overflow_checks) ==
    LET index == pixel_index(p, x, y, overflow_checks) IN
    IF IsNone(index) THEN Outcome(Panic("overflow"), p)
    ELSE IF index[1] < Len(p.data)
         THEN Outcome(Ok(Some(v)), [p EXCEPT !.data[index[1] + 1] = v])
         ELSE Outcome(Ok(None), p)

\* row_mut(y), and the caller assigning vals to the slice.
row_mut(p, y, vals) ==
    LET w == Nth(RowWindows(p), y) IN
    IF IsNone(w) THEN Outcome(None, p)
    ELSE Outcome(Some(vals),
                 [p EXCEPT !.data = Assign(p.data, WindowOffsets(w[1]), vals)])

\* rows_mut(), and the caller assigning vals[k] to the k-th slice yielded.
rows_mut(p, vals) ==
    LET ws == RowWindows(p)
        offs == Flatten([k \in 1..Min(Len(ws), Len(vals)) |->
                            SubSeq(WindowOffsets(ws[k]), 1,
                                   Min(ws[k].len, Len(vals[k])))])
    IN  Outcome(Ok(<<>>), [p EXCEPT !.data = Assign(p.data, offs, Flatten(vals))])

\* A pixels_mut() that yields the buffer elements from the origin on.
pixels_mut_from_origin(p, vals) ==
    LET n == Min(Len(vals), Len(p.data) - data_origin(p)) IN
    Outcome(Ok(<<>>),
        [p EXCEPT !.data = Assign(p.data, [i \in 1..n |-> data_origin(p) + i - 1], vals)])

\* pixels_mut(), and the caller assigning vals to the elements in the order
\* they are yielded.
pixels_mut(p, vals) ==
    Outcome(Ok(<<>>), [p EXCEPT !.data = Assign(p.data, PixelOffsets(p), vals)])

\* A copy that fills the buffer from its origin on, ignoring the stride.
copy_from_slice_contiguous(p, src, overflow_checks) ==
    IF p.geometry.width * p.geometry.height # Len(src)
    THEN Outcome(Err(<<"DataLength", p.geometry.width * p.geometry.height, Len(src)>>), p)
    ELSE Outcome(Ok(<<>>),
             [p EXCEPT !.data = Assign(p.data,
                 [i \in 1..Len(src) |-> data_origin(p) + i - 1], src)])

\* A copy that expects one element per buffer column, padding included.
copy_from_slice_stride_count(p, src, overflow_checks) ==
    IF p.geometry.stride * p.geometry.height # Len(src)
    THEN Outcome(Err(<<"DataLength", p.geometry.stride * p.geometry.height, Len(src)>>), p)
    ELSE Outcome(Ok(<<>>), [p EXCEPT !.data = Assign(p.data, PixelOffsets(p), src)])

\* A copy that assigns what it can before it reports the length.
copy_from_slice_copies_first(p, src, overflow_checks) ==
    IF p.geometry.width * p.geometry.height # Len(src)
    THEN Outcome(Err(<<"DataLength", p.geometry.width * p.geometry.height, Len(src)>>),
                 [p EXCEPT !.data = Assign(p.data, PixelOffsets(p), src)])
    ELSE Outcome(Ok(<<>>), [p EXCEPT !.data = Assign(p.data, PixelOffsets(p), src)])

copy_from_slice(p, src, overflow_checks) ==
    LET pixel_count == usize_mul(p.geometry.width, p.geometry.height, overflow_checks) IN
    IF IsNone(pixel_count) THEN Outcome(Panic("overflow"), p)
    ELSE IF pixel_count[1] # Len(src)
    THEN Outcome(Err(<<"DataLength", pixel_count[1], Len(src)>>), p)
    ELSE Outcome(Ok(<<>>), [p EXCEPT !.data = Assign(p.data, PixelOffsets(p), src)])

\* u16::from_le_bytes
from_le_bytes(b0, b1) == b0 + 256 * b1

\* A source row taken at row_idx * width instead of row_idx * stride.
SourceRow_packed(src, T, row_idx, width, stride) ==
    IF T = 1
    THEN SubSeq(src, row_idx * width + 1, row_idx * width + width)
    ELSE LET src_offset == row_idx * width * T
             src_row == SubSeq(src, src_offset + 1, src_offset + width * T)
         IN  [i \in 1..width |-> from_le_bytes(src_row[2 * i - 1], src_row[2 * i])]

\* The elements copy_from_u8_slice_with_stride writes to row row_idx.
SourceRow(src, T, row_idx, width, stride) ==
    IF T = 1
    THEN SubSeq(src, row_idx * stride + 1, row_idx * stride + width)
    ELSE LET src_offset == row_idx * stride * T
             src_row == SubSeq(src, src_offset + 1, src_offset + width * T)
         IN  [i \in 1..width |-> from_le_bytes(src_row[2 * i - 1], src_row[2 * i])]

\* The copy loop: each row of rows_mut() is assigned its source row.
CopyRows(p, T, src, stride) ==
    LET ws == RowWindows(p)
        vals == Flatten([k \in DOMAIN ws |->
                            SourceRow(src, T, k - 1, p.geometry.width, stride)])
    IN  [p EXCEPT !.data = Assign(p.data, PixelOffsets(p), vals)]

\* A byte count that takes every element for two bytes.
ByteCount_two_bytes(p, T, input_stride, overflow_checks) ==
    LET sh == usize_mul(input_stride, p.geometry.height, overflow_checks) IN
    IF IsNone(sh) THEN None ELSE usize_mul(sh[1], 2, overflow_checks)

\* byte_count = input_stride * height * byte_width
ByteCount(p, T, input_stride, overflow_checks) ==
    LET sh == usize_mul(input_stride, p.geometry.height, overflow_checks) IN
    IF IsNone(sh) THEN None ELSE usize_mul(sh[1], T, overflow_checks)

\* A copy that checks the length before the stride.
copy_from_u8_slice_with_stride_length_first(p, T, src, input_stride, overflow_checks) ==
    LET byte_count == ByteCount(p, T, input_stride, overflow_checks) IN
    IF IsNone(byte_count) THEN Outcome(Panic("overflow"), p)
    ELSE IF byte_count[1] # Len(src)
    THEN Outcome(Err(<<"DataLength", byte_count[1], Len(src)>>), p)
    ELSE IF input_stride < p.geometry.width
    THEN Outcome(Err(<<"InvalidStride", input_stride, p.geometry.width>>), p)
    ELSE Outcome(Ok(<<>>), CopyRows(p, T, src, input_stride))

copy_from_u8_slice_with_stride(p, T, src, input_stride, overflow_checks) ==
    IF input_stride < p.geometry.width
    THEN Outcome(Err(<<"InvalidStride", input_stride, p.geometry.width>>), p)
    ELSE LET byte_count == ByteCount(p, T, input_stride, overflow_checks) IN
         IF IsNone(byte_count) THEN Outcome(Panic("overflow"), p)
         ELSE IF byte_count[1] # Len(src)
         THEN Outcome(Err(<<"DataLength", byte_count[1], Len(src)>>), p)
         ELSE Outcome(Ok(<<>>), CopyRows(p, T, src, input_stride))

\* A copy that takes the buffer stride for the stride of the input.
copy_from_u8_slice_buffer_stride(p, T, src, overflow_checks) ==
    copy_from_u8_slice_with_stride(p, T, src, p.geometry.stride, overflow_checks)

copy_from_u8_slice(p, T, src, overflow_checks) ==
    copy_from_u8_slice_with_stride(p, T, src, p.geometry.width, overflow_checks)

\* u16::to_be_bytes
to_be_bytes(v) == <<(v \div 256) % 256, v % 256>>

\* u16::to_le_bytes
to_le_bytes(v) == <<v % 256, (v \div 256) % 256>>

\* The bytes byte_data emits for one pixel: [pix, 0] or pix.to_le_bytes(),
\* the first byte_width of them.
PixelBytes(pix, T) == Take(IF T = 1 THEN <<pix, 0>> ELSE to_le_bytes(pix), T)

\* byte_data(): pixels().flat_map(bytes of the pixel)
byte_data(p, T) ==
    LET pix == pixels(p) IN Flatten([i \in DOMAIN pix |-> PixelBytes(pix[i], T)])

(***************************************************************************)
(* State.                                                                  *)
(*   pc       "builder": a FrameBuilder is being configured;               *)
(*            "built": build has returned (or panicked);                   *)
(*            "plane": the caller holds a plane of a built frame           *)
(*   builder  the FrameBuilder's fields                                    *)
(*   call     the type parameters <<T, BIT_DEPTH>> of the build            *)
(*   built    what the last build returned, None before it                 *)
(*   plane    the plane the caller operates on                             *)
(*   last     the last plane operation: its name, arguments, source slice  *)
(*            and return value                                             *)
(*   nops     the number of plane operations done                          *)
(*   heap     the buffers allocated so far, in order of allocation         *)
(*   frame    the frame held, each plane a buffer of heap and a geometry   *)
(*   clone    the clones made of the frame's planes, by plane              *)
(***************************************************************************)
VARIABLES pc, builder, call, built, plane, last, nops, heap, frame, clone

buildVars == <<pc, builder, call, built>>

planeVars == <<plane, last, nops>>

frameVars == <<heap, frame, clone>>

vars == <<pc, builder, call, built, plane, last, nops, heap, frame, clone>>

Dims == 1..MaxDim

Pads == 0..MaxPad

BitDepths == (8 - DepthSlack)..(16 + DepthSlack)

NoCall == <<0, 0>>

NoOp == [op |-> "none", args |-> <<>>, src |-> <<>>, ret |-> <<>>]

(***************************************************************************)
(* The builder: FrameBuilder::new, the four setters, build.                *)
(***************************************************************************)
InitBuild ==
    /\ pc = "builder"
    /\ \E w \in Dims, h \in Dims, ss \in ChromaSubsampling :
           builder = FrameBuilderNew(w, h, ss)
    /\ call = NoCall
    /\ built = None
    /\ plane = None
    /\ last = NoOp
    /\ nops = 0
    /\ heap = <<>>
    /\ frame = None
    /\ clone = <<>>

luma_padding_left ==
    /\ pc = "builder"
    /\ \E v \in Pads : builder' = [builder EXCEPT !.luma_padding_left = v]
    /\ UNCHANGED <<pc, call, built, planeVars, frameVars>>

luma_padding_right ==
    /\ pc = "builder"
    /\ \E v \in Pads : builder' = [builder EXCEPT !.luma_padding_right = v]
    /\ UNCHANGED <<pc, call, built, planeVars, frameVars>>

luma_padding_top ==
    /\ pc = "builder"
    /\ \E v \in Pads : builder' = [builder EXCEPT !.luma_padding_top = v]
    /\ UNCHANGED <<pc, call, built, planeVars, frameVars>>

luma_padding_bottom ==
    /\ pc = "builder"
    /\ \E v \in Pads : builder' = [builder EXCEPT !.luma_padding_bottom = v]
    /\ UNCHANGED <<pc, call, built, planeVars, frameVars>>

Build ==
    /\ pc = "builder"
    /\ \E T \in PixelTypes, BIT_DEPTH \in BitDepths, overflow_checks \in BOOLEAN :
           /\ call' = <<T, BIT_DEPTH>>
           /\ built' = Some(build(builder, T, BIT_DEPTH, overflow_checks))
    /\ pc' = "built"
    /\ UNCHANGED <<builder, planeVars, frameVars>>

NextBuild ==
    \/ luma_padding_left
    \/ luma_padding_right
    \/ luma_padding_top
    \/ luma_padding_bottom
    \/ Build

SpecBuild == InitBuild /\ [][NextBuild]_vars

(***************************************************************************)
(* The planes: the caller holds one plane of a frame that build returned   *)
(* and calls its operations.                                               *)
(***************************************************************************)
\* the planes of a frame, luma first
PlanesOf(f) == <<f.y_plane>> \o f.u_plane \o f.v_plane

\* the two element kinds, each at a bit depth build accepts for it
OpKinds == {<<1, 8>>, <<2, 10>>}

\* the k-th value of the element kind T used as test data
PixelOf(T, k) == IF T = 1 THEN k ELSE k + 256 * (k + 1)

\* a slice of n elements of kind T, counting up from base
PixelRamp(T, n, base) == [i \in 1..n |-> PixelOf(T, base + i - 1)]

\* a byte slice of n bytes, counting up from base
ByteRamp(n, base) == [i \in 1..n |-> base + i - 1]

Coords == 0..MaxCoord

Bases == 0..MaxBase

SrcLens == 0..MaxSrcLen

Strides == 1..MaxStride

\* the element kind of the plane held
PlaneT == call[1]

Init ==
    /\ pc = "plane"
    /\ builder = None
    /\ built = None
    /\ \E w \in 1..OpMaxDim, h \in 1..OpMaxDim, ss \in ChromaSubsampling,
          pl \in 0..OpMaxPad, pr \in 0..OpMaxPad,
          pt \in 0..OpMaxPad, pb \in 0..OpMaxPad, kind \in OpKinds :
           LET b == [FrameBuilderNew(w, h, ss) EXCEPT
                         !.luma_padding_left = pl, !.luma_padding_right = pr,
                         !.luma_padding_top = pt, !.luma_padding_bottom = pb]
               r == build(b, kind[1], kind[2], TRUE)
           IN  /\ r.tag = "Ok"
               /\ call = kind
               /\ \E i \in DOMAIN PlanesOf(r.val) : plane = PlanesOf(r.val)[i]
    /\ last = NoOp
    /\ nops = 0
    /\ heap = <<>>
    /\ frame = None
    /\ clone = <<>>

\* the caller holds a plane and may do another operation
Ready == pc = "plane" /\ nops < MaxOps

\* an operation is done: its record and the plane after it
Did(op, args, src, out) ==
    /\ last' = [op |-> op, args |-> args, src |-> src, ret |-> out.ret]
    /\ plane' = out.plane
    /\ nops' = nops + 1
    /\ UNCHANGED <<buildVars, frameVars>>

Rows ==
    /\ Ready
    /\ Did("rows", <<>>, <<>>, Outcome(rows(plane), plane))

Row ==
    /\ Ready
    /\ \E y \in Coords : Did("row", <<y>>, <<>>, Outcome(row(plane, y), plane))

Pixels ==
    /\ Ready
    /\ Did("pixels", <<>>, <<>>, Outcome(pixels(plane), plane))

ByteData ==
    /\ Ready
    /\ Did("byte_data", <<>>, <<>>, Outcome(byte_data(plane, PlaneT), plane))

\* The bytes of byte_data() are fed to copy_from_u8_slice on a freshly
\* allocated plane of the same shape, which the caller holds from then on.
ByteDataRoundTrip ==
    /\ Ready
    /\ \E overflow_checks \in BOOLEAN :
           LET bytes == byte_data(plane, PlaneT)
               fresh == PlaneNew(plane.geometry, PlaneT, overflow_checks)
           IN  /\ IsSome(fresh)
               /\ Did("byte_data_round_trip", <<>>, bytes,
                      copy_from_u8_slice(fresh[1], PlaneT, bytes, overflow_checks))

Pixel ==
    /\ Ready
    /\ \E x \in Coords, y \in Coords, overflow_checks \in BOOLEAN :
           Did("pixel", <<x, y>>, <<>>,
               Outcome(pixel(plane, x, y, overflow_checks), plane))

PixelMut ==
    /\ Ready
    /\ \E x \in Coords, y \in Coords, base \in Bases, overflow_checks \in BOOLEAN :
           Did("pixel_mut", <<x, y>>, <<PixelOf(PlaneT, base + 1)>>,
               pixel_mut(plane, x, y, PixelOf(PlaneT, base + 1), overflow_checks))

RowMut ==
    /\ Ready
    /\ \E y \in Coords, base \in Bases :
           LET vals == PixelRamp(PlaneT, plane.geometry.width, base + 1) IN
           Did("row_mut", <<y>>, vals, row_mut(plane, y, vals))

RowsMut ==
    /\ Ready
    /\ \E base \in Bases :
           LET vals == [k \in 1..plane.geometry.height |->
                           PixelRamp(PlaneT, plane.geometry.width, base + k)]
           IN  Did("rows_mut", <<>>, vals, rows_mut(plane, vals))

PixelsMut ==
    /\ Ready
    /\ \E base \in Bases, n \in SrcLens :
           LET vals == PixelRamp(PlaneT, n, base + 1) IN
           Did("pixels_mut", <<>>, vals, pixels_mut(plane, vals))

CopyFromSlice ==
    /\ Ready
    /\ \E n \in SrcLens, base \in Bases, overflow_checks \in BOOLEAN :
           LET src == PixelRamp(PlaneT, n, base) IN
           Did("copy_from_slice", <<>>, src,
               copy_from_slice(plane, src, overflow_checks))

CopyFromU8Slice ==
    /\ Ready
    /\ \E n \in SrcLens, base \in Bases, overflow_checks \in BOOLEAN :
           LET src == ByteRamp(n, base) IN
           Did("copy_from_u8_slice", <<>>, src,
               copy_from_u8_slice(plane, PlaneT, src, overflow_checks))

CopyFromU8SliceWithStride ==
    /\ Ready
    /\ \E n \in SrcLens, base \in Bases, input_stride \in Strides,
          overflow_checks \in BOOLEAN :
           LET src == ByteRamp(n, base) IN
           Did("copy_from_u8_slice_with_stride", <<input_stride>>, src,
               copy_from_u8_slice_with_stride(plane, PlaneT, src, input_stride,
                                              overflow_checks))

Next ==
    \/ Rows
    \/ ByteData
    \/ ByteDataRoundTrip
    \/ Row
    \/ Pixels
    \/ Pixel
    \/ PixelMut
    \/ RowMut
    \/ RowsMut
    \/ PixelsMut
    \/ CopyFromSlice
    \/ CopyFromU8Slice
    \/ CopyFromU8SliceWithStride

Spec == Init /\ [][Next]_vars

(***************************************************************************)
(* Storage.  A plane owns its buffer (ABox<[T]>): Plane::new and           *)
(* Plane::clone each make a new allocation.  heap[k] is the k-th buffer    *)
(* allocated; a plane of the frame held is the handle [buf, geometry].     *)
(***************************************************************************)
Handle(buf, geometry) == [buf |-> buf, geometry |-> geometry]

\* the plane behind a handle
Deref(hp, h) == [data |-> hp[h.buf], geometry |-> h.geometry]

\* Chroma planes that share one buffer.
FramePlanes_shared_chroma(f) ==
    LET ps == PlanesOf(f) IN
    [heap |-> [i \in DOMAIN ps |-> ps[i].data],
     handles |-> [i \in DOMAIN ps |-> Handle(Min(i, 2), ps[i].geometry)]]

\* The planes of a frame build returned, luma first: one Plane::new, hence
\* one buffer, for each.
FramePlanes(f) ==
    LET ps == PlanesOf(f) IN
    [heap |-> [i \in DOMAIN ps |-> ps[i].data],
     handles |-> [i \in DOMAIN ps |-> Handle(i, ps[i].geometry)]]

\* A clone that copies the reference to the buffer.
PlaneClone_shallow(hp, h) == [heap |-> hp, handle |-> h]

\* #[derive(Clone)] on Plane: ABox::clone copies the buffer into a new
\* allocation, the geometry is copied.
PlaneClone(hp, h) ==
    [heap |-> Append(hp, hp[h.buf]), handle |-> Handle(Len(hp) + 1, h.geometry)]

\* #[derive(Clone)] on Frame: every plane is cloned, luma first.
RECURSIVE FrameCloneFrom(_, _, _)
FrameCloneFrom(hp, handles, i) ==
    IF i > Len(handles) THEN [heap |-> hp, handles |-> <<>>]
    ELSE LET c == PlaneClone(hp, handles[i])
             rest == FrameCloneFrom(c.heap, handles, i + 1)
         IN  [heap |-> rest.heap, handles |-> <<Some(c.handle)>> \o rest.handles]

FrameClone(hp, handles) == FrameCloneFrom(hp, handles, 1)

FrameDims == 1..MaxFrameDim

FramePads == 0..MaxFramePad

InitFrame ==
    /\ pc = "frame"
    /\ builder = None
    /\ built = None
    /\ plane = None
    /\ last = NoOp
    /\ nops = 0
    /\ \E w \in FrameDims, h \in FrameDims, ss \in ChromaSubsampling,
          pad \in FramePads, kind \in OpKinds :
           LET b == [FrameBuilderNew(w, h, ss) EXCEPT
                         !.luma_padding_left = pad, !.luma_padding_top = pad]
               r == build(b, kind[1], kind[2], TRUE)
           IN  /\ r.tag = "Ok"
               /\ call = kind
               /\ heap = FramePlanes(r.val).heap
               /\ frame = FramePlanes(r.val).handles
               /\ clone = [i \in DOMAIN FramePlanes(r.val).handles |-> None]

\* the planes that can be written: those of the frame and the clones made
Targets ==
    {<<"frame", i>> : i \in DOMAIN frame}
        \cup {<<"clone", i>> : i \in {j \in DOMAIN clone : IsSome(clone[j])}}

TargetHandle(t) == IF t[1] = "frame" THEN frame[t[2]] ELSE clone[t[2]][1]

TargetPlane(t) == Deref(heap, TargetHandle(t))

CanWrite == pc = "frame" /\ nops < MaxFrameOps

\* a write to the plane t is done: its buffer holds what the operation left
Stored(op, t, src, out) ==
    /\ heap' = [heap EXCEPT ![TargetHandle(t).buf] = out.plane.data]
    /\ last' = [op |-> op, args |-> t, src |-> src, ret |-> out.ret]
    /\ nops' = nops + 1
    /\ UNCHANGED <<buildVars, plane, frame, clone>>

FramePixelMut ==
    /\ CanWrite
    /\ \E t \in Targets, x \in 0..1, y \in 0..1 :
           Stored("pixel_mut", t, <<PixelOf(PlaneT, 1)>>,
                  pixel_mut(TargetPlane(t), x, y, PixelOf(PlaneT, 1), TRUE))

FrameRowsMut ==
    /\ CanWrite
    /\ \E t \in Targets :
           LET g == TargetHandle(t).geometry
               vals == [k \in 1..g.height |-> PixelRamp(PlaneT, g.width, 2 * k)]
           IN  Stored("rows_mut", t, vals, rows_mut(TargetPlane(t), vals))

FrameCopyFromSlice ==
    /\ CanWrite
    /\ \E t \in Targets, extra \in 0..1 :
           LET g == TargetHandle(t).geometry
               src == PixelRamp(PlaneT, g.width * g.height + extra, 6)
           IN  Stored("copy_from_slice", t, src,
                      copy_from_slice(TargetPlane(t), src, TRUE))

FrameCopyFromU8Slice ==
    /\ CanWrite
    /\ \E t \in Targets :
           LET g == TargetHandle(t).geometry
               src == ByteRamp(g.width * g.height * PlaneT, 10)
           IN  Stored("copy_from_u8_slice", t, src,
                      copy_from_u8_slice(TargetPlane(t), PlaneT, src, TRUE))

NotCloned == \A i \in DOMAIN clone : IsNone(clone[i])

\* frame.clone()
CloneFrame ==
    /\ pc = "frame" /\ NotCloned
    /\ heap' = FrameClone(heap, frame).heap
    /\ clone' = FrameClone(heap, frame).handles
    /\ last' = [op |-> "frame_clone", args |-> <<>>, src |-> <<>>, ret |-> <<>>]
    /\ UNCHANGED <<buildVars, plane, frame, nops>>

\* a clone() of one plane of the frame
ClonePlane ==
    /\ pc = "frame" /\ NotCloned
    /\ \E i \in DOMAIN frame :
           /\ heap' = PlaneClone(heap, frame[i]).heap
           /\ clone' = [clone EXCEPT ![i] = Some(PlaneClone(heap, frame[i]).handle)]
           /\ last' = [op |-> "plane_clone", args |-> <<i>>, src |-> <<>>, ret |-> <<>>]
    /\ UNCHANGED <<buildVars, plane, frame, nops>>

NextFrame ==
    \/ FramePixelMut
    \/ FrameRowsMut
    \/ FrameCopyFromSlice
    \/ FrameCopyFromU8Slice
    \/ CloneFrame
    \/ ClonePlane

SpecFrame == InitFrame /\ [][NextFrame]_vars

(***************************************************************************)
(* frame.rs: the builder's life.  Every method of FrameBuilder takes self  *)
(* by value: a setter returns the builder changed, build consumes it, and  *)
(* FrameBuilder is neither Clone nor Copy, so another build needs a new    *)
(* builder.  call holds the type parameters of the last build and the      *)
(* builder it consumed.  last records each call; for a build, last.src     *)
(* holds the builder consumed, what the build before it returned, and that *)
(* build's call.                                                           *)
(***************************************************************************)
\* A setter that also clears the opposite side.
set_luma_padding_left_clears_right(b, padding) ==
    [b EXCEPT !.luma_padding_left = padding, !.luma_padding_right = 0]

set_luma_padding_left(b, padding) == [b EXCEPT !.luma_padding_left = padding]

set_luma_padding_right(b, padding) == [b EXCEPT !.luma_padding_right = padding]

set_luma_padding_top(b, padding) == [b EXCEPT !.luma_padding_top = padding]

set_luma_padding_bottom(b, padding) == [b EXCEPT !.luma_padding_bottom = padding]

\* A build that hands back the error of the build before it.
Invoke_sticky_error(earlier, b, T, BIT_DEPTH, overflow_checks) ==
    IF IsSome(earlier) /\ earlier[1].tag = "Err" THEN earlier[1]
    ELSE build(b, T, BIT_DEPTH, overflow_checks)

\* build::<T, BIT_DEPTH>(self) called after an earlier build returned
\* earlier: it reads self and its type parameters, no static.
Invoke(earlier, b, T, BIT_DEPTH, overflow_checks) ==
    build(b, T, BIT_DEPTH, overflow_checks)

SetPads == 0..MaxSetPad

\* the type parameters of the builds: u8 at 8, u16 at 8, u16 at 10, u8 at 17
BuilderCalls == {<<1, 8>>, <<2, 8>>, <<2, 10>>, <<1, 17>>}

InitBuilder ==
    /\ pc = "config"
    /\ \E w \in FrameDims, h \in FrameDims, ss \in ChromaSubsampling :
           /\ builder = Some(FrameBuilderNew(w, h, ss))
           /\ last = [op |-> "new", args |-> <<w, h, ss>>, src |-> <<>>, ret |-> <<>>]
    /\ call = NoCall
    /\ built = None
    /\ plane = None
    /\ nops = 0
    /\ heap = <<>>
    /\ frame = None
    /\ clone = <<>>

CanCall == pc = "config" /\ nops < MaxBuilderOps

\* a setter is called on the builder held
Set(op, padding, b) ==
    /\ builder' = Some(b)
    /\ last' = [op |-> op, args |-> <<padding>>, src |-> <<>>, ret |-> <<>>]
    /\ nops' = nops + 1
    /\ UNCHANGED <<pc, call, built, plane, frameVars>>

SetPaddingLeft ==
    /\ CanCall /\ IsSome(builder)
    /\ \E padding \in SetPads :
           Set("luma_padding_left", padding, set_luma_padding_left(builder[1], padding))

SetPaddingRight ==
    /\ CanCall /\ IsSome(builder)
    /\ \E padding \in SetPads :
           Set("luma_padding_right", padding, set_luma_padding_right(builder[1], padding))

SetPaddingTop ==
    /\ CanCall /\ IsSome(builder)
    /\ \E padding \in SetPads :
           Set("luma_padding_top", padding, set_luma_padding_top(builder[1], padding))

SetPaddingBottom ==
    /\ CanCall /\ IsSome(builder)
    /\ \E padding \in SetPads :
           Set("luma_padding_bottom", padding, set_luma_padding_bottom(builder[1], padding))

\* build consumes the builder
BuildOnce ==
    /\ CanCall /\ IsSome(builder)
    /\ \E kind \in BuilderCalls, overflow_checks \in BOOLEAN :
           LET r == Invoke(built, builder[1], kind[1], kind[2], overflow_checks) IN
           /\ call' = <<kind[1], kind[2], builder[1]>>
           /\ built' = Some(r)
           /\ last' = [op |-> "build", args |-> kind,
                       src |-> <<builder[1], built, call>>, ret |-> r]
    /\ builder' = None
    /\ nops' = nops + 1
    /\ UNCHANGED <<pc, plane, frameVars>>

\* FrameBuilder::new, once the builder before it has been consumed
NewBuilder ==
    /\ pc = "config" /\ IsNone(builder)
    /\ \E w \in FrameDims, h \in FrameDims, ss \in ChromaSubsampling :
           /\ builder' = Some(FrameBuilderNew(w, h, ss))
           /\ last' = [op |-> "new", args |-> <<w, h, ss>>, src |-> <<>>, ret |-> <<>>]
    /\ UNCHANGED <<pc, call, built, plane, nops, frameVars>>

NextBuilder ==
    \/ SetPaddingLeft
    \/ SetPaddingRight
    \/ SetPaddingTop
    \/ SetPaddingBottom
    \/ BuildOnce
    \/ NewBuilder

SpecBuilder == InitBuilder /\ [][NextBuilder]_vars

(***************************************************************************)
(* chroma.rs: the three functions of ChromaSubsampling, each applied to    *)
(* the subsampling and luma dimensions drawn, its result recorded in last. *)
(***************************************************************************)
LumaSizes == 0..MaxLuma

InitChroma ==
    /\ pc = "chroma"
    /\ builder = None
    /\ call = NoCall
    /\ built = None
    /\ plane = None
    /\ \E ss \in ChromaSubsampling, luma_width \in LumaSizes, luma_height \in LumaSizes :
           last = [NoOp EXCEPT !.args = <<ss, luma_width, luma_height>>]
    /\ nops = 0
    /\ heap = <<>>
    /\ frame = None
    /\ clone = <<>>

\* a function of ChromaSubsampling is called on the arguments drawn
Called(op, ret) ==
    /\ last' = [last EXCEPT !.op = op, !.ret = ret]
    /\ UNCHANGED <<buildVars, plane, nops, frameVars>>

HasChroma ==
    /\ pc = "chroma"
    /\ Called("has_chroma", has_chroma(last.args[1]))

SubsampleRatio ==
    /\ pc = "chroma"
    /\ Called("subsample_ratio", subsample_ratio(last.args[1]))

ChromaDimensions ==
    /\ pc = "chroma"
    /\ Called("chroma_dimensions",
              chroma_dimensions(last.args[1], last.args[2], last.args[3]))

NextChroma ==
    \/ HasChroma
    \/ SubsampleRatio
    \/ ChromaDimensions

SpecChroma == InitChroma /\ [][NextChroma]_vars

(***************************************************************************)
(* The machine word: builders whose dimensions and paddings reach          *)
(* usize::MAX, built under both build profiles (with and without overflow  *)
(* checks), and pixel, pixel_mut and rows called on the planes returned    *)
(* with coordinates up to usize::MAX.  call holds the type parameters and  *)
(* the profile of the build; the later calls run under the same profile.   *)
(***************************************************************************)
WordHalf == (UsizeMax + 1) \div 2

WordDims == {1, 2, UsizeMax - 1, UsizeMax}

WordPads == {0, 2, UsizeMax}

WordCoords == {0, 1, WordHalf, UsizeMax}

\* data_origin with the machine's arithmetic: None when it panics
data_origin_word(p, overflow_checks) ==
    LET above == usize_mul(p.geometry.stride, p.geometry.pad_top, overflow_checks) IN
    IF IsNone(above) THEN None
    ELSE usize_add(above[1], p.geometry.pad_left, overflow_checks)

\* what get_unchecked in rows() and rows_mut() relies on: the origin is in
\* the buffer and every chunk taken holds width elements
RowsInBounds(p, origin) ==
    /\ origin <= Len(p.data)
    /\ \A k \in DOMAIN RowChunks(p, origin) :
           RowChunks(p, origin)[k].len >= p.geometry.width

\* The outcomes of rows() on the machine: the row windows; a panic of the
\* origin arithmetic; or, when get_unchecked is out of bounds, undefined
\* behaviour, of which a fault and rows over memory outside the buffer are
\* the outcomes told apart here.
RowsOutcomes(p, overflow_checks) ==
    LET origin == data_origin_word(p, overflow_checks) IN
    IF IsNone(origin) THEN {Panic("overflow")}
    ELSE IF RowsInBounds(p, origin[1]) THEN {Ok(RowWindowsAt(p, origin[1]))}
    ELSE {[tag |-> "Fault", val |-> <<>>], [tag |-> "OutOfBounds", val |-> <<>>]}

\* the frame f with its i-th plane replaced by p
WithPlane(f, i, p) ==
    CASE i = 1 -> [f EXCEPT !.y_plane = p]
      [] i = 2 -> [f EXCEPT !.u_plane = Some(p)]
      [] i = 3 -> [f EXCEPT !.v_plane = Some(p)]

InitWord ==
    /\ pc = "word"
    /\ \E w \in WordDims, h \in WordDims, ss \in ChromaSubsampling,
          pl \in WordPads, pt \in WordPads, pr \in {0, 2}, pb \in {0, 2} :
           builder = [FrameBuilderNew(w, h, ss) EXCEPT
                          !.luma_padding_left = pl, !.luma_padding_right = pr,
                          !.luma_padding_top = pt, !.luma_padding_bottom = pb]
    /\ call = NoCall
    /\ built = None
    /\ plane = None
    /\ last = NoOp
    /\ nops = 0
    /\ heap = <<>>
    /\ frame = None
    /\ clone = <<>>

WordBuild ==
    /\ pc = "word"
    /\ IsNone(built)
    /\ \E kind \in OpKinds, overflow_checks \in BOOLEAN :
           /\ call' = <<kind[1], kind[2], overflow_checks>>
           /\ built' = Some(build(builder, kind[1], kind[2], overflow_checks))
           /\ last' = [NoOp EXCEPT !.op = "build"]
    /\ UNCHANGED <<pc, builder, plane, nops, frameVars>>

\* a frame was returned and the caller may call one of its planes
WordReady ==
    /\ pc = "word"
    /\ IsSome(built)
    /\ built[1].tag = "Ok"
    /\ nops < MaxWordOps

WordPixel ==
    /\ WordReady
    /\ \E i \in DOMAIN PlanesOf(built[1].val), x \in WordCoords, y \in WordCoords :
           last' = [op |-> "pixel", args |-> <<i, x, y>>, src |-> <<>>,
                    ret |-> pixel(PlanesOf(built[1].val)[i], x, y, call[3])]
    /\ nops' = nops + 1
    /\ UNCHANGED <<buildVars, plane, frameVars>>

WordPixelMut ==
    /\ WordReady
    /\ \E i \in DOMAIN PlanesOf(built[1].val), x \in WordCoords, y \in WordCoords :
           LET out == pixel_mut(PlanesOf(built[1].val)[i], x, y,
                                PixelOf(call[1], 1), call[3])
           IN  /\ last' = [op |-> "pixel_mut", args |-> <<i, x, y>>,
                           src |-> <<PixelOf(call[1], 1)>>, ret |-> out.ret]
               /\ built' = Some(Ok(WithPlane(built[1].val, i, out.plane)))
    /\ nops' = nops + 1
    /\ UNCHANGED <<pc, builder, call, plane, frameVars>>

WordRows ==
    /\ WordReady
    /\ \E i \in DOMAIN PlanesOf(built[1].val) :
       \E ret \in RowsOutcomes(PlanesOf(built[1].val)[i], call[3]) :
           last' = [op |-> "rows", args |-> <<i>>, src |-> <<>>, ret |-> ret]
    /\ nops' = nops + 1
    /\ UNCHANGED <<buildVars, plane, frameVars>>

NextWord ==
    \/ WordBuild
    \/ WordPixel
    \/ WordPixelMut
    \/ WordRows

SpecWord == InitWord /\ [][NextWord]_vars

(***************************************************************************)
(* What the claims say, in the claims' own terms.                          *)
(***************************************************************************)
\* the subsampling ratios: Yuv420 (2,2), Yuv422 (2,1), Yuv444 (1,1)
RatioX(ss) == IF ss \in {"Yuv420", "Yuv422"} THEN 2 ELSE 1

RatioY(ss) == IF ss = "Yuv420" THEN 2 ELSE 1

\* the element kind matches the bit depth: u8 with 8, u16 with 9..16
KindMatchesDepth(T, BIT_DEPTH) ==
    (T = 1 /\ BIT_DEPTH = 8) \/ (T = 2 /\ BIT_DEPTH \in 9..16)

Returned == pc = "built" /\ IsSome(built)

ReturnedOk == Returned /\ built[1].tag = "Ok"

ReturnedErr(e) == Returned /\ built[1].tag = "Err" /\ built[1].val = e

BuiltFrame == built[1].val

(* C1: build checks in a fixed order and the first failing check decides   *)
(* the error: a bit depth outside [8,16] yields UnsupportedBitDepth with   *)
(* that depth, whatever the element kind, subsampling, dimensions and      *)
(* padding; otherwise a kind/depth mismatch yields DataTypeMismatch        *)
(* whatever the subsampling, dimensions and padding; UnsupportedResolution *)
(* is returned only when both earlier checks pass.                         *)
C1_CheckOrder ==
    Returned =>
        LET kind == call[1]
            depth == call[2]
        IN  /\ depth \notin 8..16
                => ReturnedErr(<<"UnsupportedBitDepth", depth>>)
            /\ (depth \in 8..16 /\ ~KindMatchesDepth(kind, depth))
                => ReturnedErr(<<"DataTypeMismatch">>)
            /\ ReturnedErr(<<"UnsupportedResolution">>)
                => (depth \in 8..16 /\ KindMatchesDepth(kind, depth))

\* a u8 build at depth 17 of a builder whose width Yuv420 cannot halve and
\* whose padding is odd: all three checks would fail, the first one decides
C1_Witness ==
    /\ ReturnedErr(<<"UnsupportedBitDepth", 17>>)
    /\ call[1] = 1
    /\ builder.subsampling = "Yuv420"
    /\ builder.width % 2 = 1
    /\ builder.luma_padding_top = 1

(* C2: with a valid element kind and bit depth, build fails with           *)
(* UnsupportedResolution exactly when the subsampling has chroma and       *)
(* either chroma_dimensions(width, height) is None or some luma padding is *)
(* not divisible by its axis ratio (left, right by ratio_x; top, bottom by *)
(* ratio_y); in every other case it succeeds.                              *)
C2_Unsupported ==
    (builder.subsampling # "Monochrome") /\
    (\/ IsNone(chroma_dimensions(builder.subsampling, builder.width, builder.height))
     \/ builder.luma_padding_left % RatioX(builder.subsampling) # 0
     \/ builder.luma_padding_right % RatioX(builder.subsampling) # 0
     \/ builder.luma_padding_top % RatioY(builder.subsampling) # 0
     \/ builder.luma_padding_bottom % RatioY(builder.subsampling) # 0)

C2_ResolutionCheck ==
    (Returned /\ KindMatchesDepth(call[1], call[2])) =>
        IF C2_Unsupported THEN ReturnedErr(<<"UnsupportedResolution">>)
        ELSE ReturnedOk

\* Yuv422 built with odd top and bottom padding
C2_Witness ==
    /\ ReturnedOk
    /\ builder.subsampling = "Yuv422"
    /\ builder.luma_padding_top = 1
    /\ builder.luma_padding_bottom = 1
    /\ builder.luma_padding_left = 2

(* C3: in every frame build returns with chroma planes, U and V both have  *)
(* visible width = luma width / ratio_x and visible height = luma height / *)
(* ratio_y whatever the padding, each chroma padding is the luma padding   *)
(* divided by its axis ratio with no remainder, and chroma stride = chroma *)
(* width + chroma pad_left + chroma pad_right.                             *)
C3_ChromaPlaneOk(p) ==
    LET g == p.geometry
        rx == RatioX(builder.subsampling)
        ry == RatioY(builder.subsampling)
    IN  /\ g.width * rx = builder.width
        /\ g.height * ry = builder.height
        /\ g.pad_left * rx = builder.luma_padding_left
        /\ g.pad_right * rx = builder.luma_padding_right
        /\ g.pad_top * ry = builder.luma_padding_top
        /\ g.pad_bottom * ry = builder.luma_padding_bottom
        /\ g.stride = g.width + g.pad_left + g.pad_right

C3_ChromaGeometry ==
    (ReturnedOk /\ builder.subsampling # "Monochrome") =>
        /\ IsSome(BuiltFrame.u_plane) /\ C3_ChromaPlaneOk(BuiltFrame.u_plane[1])
        /\ IsSome(BuiltFrame.v_plane) /\ C3_ChromaPlaneOk(BuiltFrame.v_plane[1])

\* a padded Yuv420 frame: chroma padding 1 on each side from luma padding 2
C3_Witness ==
    /\ ReturnedOk
    /\ builder.subsampling = "Yuv420"
    /\ builder.width = 4 /\ builder.height = 2
    /\ builder.luma_padding_left = 2 /\ builder.luma_padding_right = 2
    /\ builder.luma_padding_top = 2 /\ builder.luma_padding_bottom = 2
    /\ BuiltFrame.u_plane[1].geometry = PlaneGeometry(2, 1, 4, 1, 1, 1, 1)

(* C4: every plane that build returns has stride = width + pad_left +      *)
(* pad_right (hence width <= stride), and the luma plane's visible width,  *)
(* visible height and four paddings are exactly the values given to the    *)
(* builder.                                                                *)
C4_PlaneStride ==
    ReturnedOk =>
        /\ \A i \in DOMAIN PlanesOf(BuiltFrame) :
               LET g == PlanesOf(BuiltFrame)[i].geometry IN
               /\ g.stride = g.width + g.pad_left + g.pad_right
               /\ g.width <= g.stride
        /\ LET g == BuiltFrame.y_plane.geometry IN
               /\ g.width = builder.width
               /\ g.height = builder.height
               /\ g.pad_left = builder.luma_padding_left
               /\ g.pad_right = builder.luma_padding_right
               /\ g.pad_top = builder.luma_padding_top
               /\ g.pad_bottom = builder.luma_padding_bottom

\* a luma plane with four different paddings
C4_Witness ==
    /\ ReturnedOk
    /\ builder.width = 3 /\ builder.height = 1
    /\ BuiltFrame.y_plane.geometry = PlaneGeometry(3, 1, 6, 1, 2, 0, 1)

\* the plane's geometry, and the linear index the claims give for (x, y)
Geo == plane.geometry

Origin == Geo.stride * Geo.pad_top + Geo.pad_left

LinearIndex(x, y) == Origin + Geo.stride * y + x

\* the buffer element at a linear index
Element(index) == plane.data[index + 1]

Unpadded ==
    Geo.pad_left = 0 /\ Geo.pad_right = 0 /\ Geo.pad_top = 0 /\ Geo.pad_bottom = 0

Holding == pc = "plane"

(* C5: for every plane of every frame build returns, the buffer length is  *)
(* stride x (height + pad_top + pad_bottom), and this length and the       *)
(* plane's geometry are unchanged by every plane operation, successful or  *)
(* failed, hence by any sequence of them.                                  *)
C5_LengthOk ==
    Holding => Len(plane.data) = Geo.stride * (Geo.height + Geo.pad_top + Geo.pad_bottom)

C5_Kept ==
    Holding => /\ Len(plane'.data) = Len(plane.data)
               /\ plane'.geometry = plane.geometry

C5_BufferLength == []C5_LengthOk /\ [][C5_Kept]_vars

\* a 2x2 plane padded on every side, 16 elements long, after a copy that
\* succeeded and one that failed
C5_Witness ==
    /\ Holding /\ nops = 2
    /\ Geo = PlaneGeometry(2, 2, 4, 1, 1, 1, 1)
    /\ Len(plane.data) = 16
    /\ last.op = "copy_from_slice" /\ last.ret.tag = "Err"
    /\ \E i \in DOMAIN plane.data : plane.data[i] # PixelZero

(* C6: rows() yields exactly height rows, top to bottom, each of exactly   *)
(* width elements, element x of row y being the buffer element at          *)
(* origin + stride*y + x with origin = stride*pad_top + pad_left; pixels() *)
(* yields exactly width*height elements, the same ones in row-major order. *)
C6_RowsLayout ==
    /\ (Holding /\ last.op = "rows") =>
           /\ Len(last.ret) = Geo.height
           /\ \A y \in 0..(Geo.height - 1) :
                  /\ Len(last.ret[y + 1]) = Geo.width
                  /\ \A x \in 0..(Geo.width - 1) :
                         last.ret[y + 1][x + 1] = Element(LinearIndex(x, y))
    /\ (Holding /\ last.op = "pixels") =>
           /\ Len(last.ret) = Geo.width * Geo.height
           /\ \A y \in 0..(Geo.height - 1) : \A x \in 0..(Geo.width - 1) :
                  last.ret[y * Geo.width + x + 1] = Element(LinearIndex(x, y))

\* rows() of a written 2x2 plane with padding on the left and on top
C6_Witness ==
    /\ Holding /\ last.op = "rows"
    /\ Geo.width = 2 /\ Geo.height = 2 /\ Geo.pad_left = 1 /\ Geo.pad_top = 1
    /\ last.ret = <<<<0, 1>>, <<2, 3>>>>

C8_RoundTrip ==
    (Holding /\ last.op = "copy_from_slice"
       /\ Len(last.src) = Geo.width * Geo.height) =>
        /\ last.ret.tag = "Ok"
        /\ pixels(plane) = last.src

\* four u16 elements copied into a 2x2 plane padded on every side
C8_Witness ==
    /\ Holding /\ last.op = "copy_from_slice" /\ last.ret.tag = "Ok"
    /\ call[1] = 2
    /\ Geo = PlaneGeometry(2, 2, 4, 1, 1, 1, 1)
    /\ last.src = <<256, 513, 770, 1027>>
    /\ pixels(plane) = <<256, 513, 770, 1027>>

(* C9: after a successful copy_from_u8_slice_with_stride(src, stride),     *)
(* stride >= width, visible pixel (x, y) is src[y*stride + x] for the      *)
(* 1-byte kind and src[2*(y*stride + x)] + 256 * src[2*(y*stride + x) + 1] *)
(* for the 2-byte kind; no byte of the stride - width trailing elements of *)
(* an input row enters the result.                                         *)
C9_StrideCopy ==
    (Holding /\ last.op = "copy_from_u8_slice_with_stride" /\ last.ret.tag = "Ok") =>
        LET stride == last.args[1]
            src == last.src
        IN  /\ stride >= Geo.width
            /\ \A y \in 0..(Geo.height - 1) : \A x \in 0..(Geo.width - 1) :
                   Element(LinearIndex(x, y)) =
                       IF call[1] = 1
                       THEN src[(y * stride + x) + 1]
                       ELSE src[2 * (y * stride + x) + 1]
                              + 256 * src[2 * (y * stride + x) + 2]

\* a u16 plane of width 1 and height 2 fed rows of 2 elements: the bytes
\* 2, 3 and 6, 7 are skipped
C9_Witness ==
    /\ Holding /\ last.op = "copy_from_u8_slice_with_stride"
    /\ last.ret.tag = "Ok" /\ last.args = <<2>>
    /\ call[1] = 2 /\ Geo.width = 1 /\ Geo.height = 2 /\ Geo.pad_left = 1
    /\ last.src = <<0, 1, 2, 3, 4, 5, 6, 7>>
    /\ pixels(plane) = <<256, 1284>>

(* C10: copy_from_u8_slice_with_stride fails with InvalidStride carrying   *)
(* the given stride and the plane's visible width whenever the stride is   *)
(* smaller than width, for a source of any length: the check comes before  *)
(* the length check.                                                       *)
C10_InvalidStride ==
    (Holding /\ last.op = "copy_from_u8_slice_with_stride"
       /\ last.args[1] < Geo.width) =>
        last.ret = Err(<<"InvalidStride", last.args[1], Geo.width>>)

\* stride 1 on a plane of width 2, with a source whose length fits no
\* stride at all
C10_Witness ==
    /\ Holding /\ last.op = "copy_from_u8_slice_with_stride"
    /\ last.args = <<1>> /\ Geo.width = 2 /\ Geo.height = 2
    /\ Len(last.src) = 5
    /\ last.ret = Err(<<"InvalidStride", 1, 2>>)

C12_SliceLength ==
    (Holding /\ last.op = "copy_from_slice"
       /\ Len(last.src) # Geo.width * Geo.height) =>
        last.ret = Err(<<"DataLength", Geo.width * Geo.height, Len(last.src)>>)

\* a padded 2x1 plane, 4 elements to a buffer row, given 4 elements
C12_Witness ==
    /\ Holding /\ last.op = "copy_from_slice"
    /\ Geo.width = 2 /\ Geo.height = 1 /\ Geo.stride = 4
    /\ Len(last.src) = 4
    /\ last.ret = Err(<<"DataLength", 2, 4>>)

(* C13: byte_data() yields exactly width*height*byte_width bytes, those of *)
(* the visible pixels only, in row-major order: for the 1-byte kind the    *)
(* bytes are the pixels; for the 2-byte kind each pixel v gives the two    *)
(* bytes v mod 256, v div 256 in that order.                               *)
C13_ByteData ==
    (Holding /\ last.op = "byte_data") =>
        /\ Len(last.ret) = Geo.width * Geo.height * call[1]
        /\ \A y \in 0..(Geo.height - 1) : \A x \in 0..(Geo.width - 1) :
               LET v == Element(LinearIndex(x, y))
                   k == y * Geo.width + x
               IN  IF call[1] = 1
                   THEN last.ret[k + 1] = v
                   ELSE /\ last.ret[2 * k + 1] = v % 256
                        /\ last.ret[2 * k + 2] = v \div 256

\* the eight bytes of a written u16 plane of 2x2 pixels with padding
C13_Witness ==
    /\ Holding /\ last.op = "byte_data" /\ call[1] = 2
    /\ Geo = PlaneGeometry(2, 2, 4, 1, 1, 1, 1)
    /\ pixels(plane) = <<256, 513, 770, 1027>>
    /\ last.ret = <<0, 1, 1, 2, 2, 3, 3, 4>>

(* C14: for both element kinds and any plane P, feeding the bytes of       *)
(* P.byte_data() to copy_from_u8_slice on a freshly allocated plane of the *)
(* same shape succeeds and makes that plane's pixels() equal P.pixels():  *)
(* visible pixel (x, y) of the fresh plane is visible pixel (x, y) of P.    *)
C14_Step ==
    (Holding /\ last'.op = "byte_data_round_trip") =>
        /\ last'.src = byte_data(plane, call[1])
        /\ last'.ret.tag = "Ok"
        /\ plane'.geometry = plane.geometry
        /\ \A y \in 0..(Geo.height - 1) : \A x \in 0..(Geo.width - 1) :
               plane'.data[LinearIndex(x, y) + 1] = Element(LinearIndex(x, y))

C14_ByteRoundTrip == [][C14_Step]_vars

\* a padded u16 plane of 2x2 written pixels reproduced in a fresh plane,
\* whose padding is still zero
C14_Witness ==
    /\ Holding /\ last.op = "byte_data_round_trip" /\ last.ret.tag = "Ok"
    /\ call[1] = 2
    /\ Geo = PlaneGeometry(2, 2, 3, 1, 0, 0, 1)
    /\ last.src = <<0, 1, 1, 2, 2, 3, 3, 4>>
    /\ plane.data = <<0, 256, 513, 0, 770, 1027, 0, 0, 0>>

(* C20: row(y) and row_mut(y) return the y-th row of rows(), the width     *)
(* elements of visible row y, when y < height, and None exactly when       *)
(* y >= height, with or without padding, bottom padding rows included.     *)
C20_RowLookup ==
    (Holding /\ last.op \in {"row", "row_mut"}) =>
        LET y == last.args[1] IN
        IF y < Geo.height
        THEN /\ IsSome(last.ret)
             /\ last.ret[1] = rows(plane)[y + 1]
             /\ Len(last.ret[1]) = Geo.width
             /\ \A x \in 0..(Geo.width - 1) :
                    last.ret[1][x + 1] = Element(LinearIndex(x, y))
        ELSE IsNone(last.ret)

\* row(height) on a written plane of one visible row with a padding row
\* below it
C20_Witness ==
    /\ Holding /\ last.op = "row" /\ last.args = <<1>>
    /\ Geo.height = 1 /\ Geo.pad_bottom = 1 /\ Geo.pad_top = 0
    /\ \E i \in DOMAIN plane.data : plane.data[i] # PixelZero
    /\ IsNone(last.ret)

(* C15: build passes the bit-depth and element-kind checks exactly when    *)
(* the kind is 1 byte and the depth 8, or the kind is 2 bytes and the      *)
(* depth in 9..16; so every frame that exists has a depth in [8,16] whose  *)
(* category matches its byte width, and depth 8 with u8 and each of the    *)
(* depths 9 to 16 with u16 are accepted.                                   *)
C15_PassedTypeChecks ==
    ~(built[1].tag = "Err"
        /\ built[1].val[1] \in {"UnsupportedBitDepth", "DataTypeMismatch"})

C15_KindAndDepth ==
    Returned =>
        /\ C15_PassedTypeChecks <=> KindMatchesDepth(call[1], call[2])
        /\ ReturnedOk =>
               /\ call[2] \in 8..16
               /\ call[1] = 1 <=> call[2] = 8
               /\ call[1] = 2 <=> call[2] \in 9..16
        /\ (KindMatchesDepth(call[1], call[2]) /\ builder.subsampling = "Monochrome")
               => ReturnedOk

\* a u16 frame at depth 16
C15_Witness ==
    /\ ReturnedOk
    /\ call = <<2, 16>>
    /\ builder.subsampling = "Yuv444"
    /\ BuiltFrame.y_plane.geometry.width = builder.width

(* C16: in every frame build returns, u_plane and v_plane are both present *)
(* when the subsampling has chroma and both absent when it is Monochrome,  *)
(* never exactly one of them, and the frame's subsampling is the one given *)
(* to FrameBuilder::new.                                                   *)
C16_ChromaPresence ==
    ReturnedOk =>
        /\ builder.subsampling # "Monochrome"
               => (IsSome(BuiltFrame.u_plane) /\ IsSome(BuiltFrame.v_plane))
        /\ builder.subsampling = "Monochrome"
               => (IsNone(BuiltFrame.u_plane) /\ IsNone(BuiltFrame.v_plane))
        /\ IsSome(BuiltFrame.u_plane) <=> IsSome(BuiltFrame.v_plane)
        /\ BuiltFrame.subsampling = builder.subsampling

\* a Monochrome frame with odd padding: luma only
C16_Witness ==
    /\ ReturnedOk
    /\ builder.subsampling = "Monochrome"
    /\ builder.luma_padding_left = 1 /\ builder.luma_padding_bottom = 1
    /\ BuiltFrame.u_plane = None /\ BuiltFrame.v_plane = None
    /\ BuiltFrame.subsampling = "Monochrome"

(* C19: chroma_dimensions(w, h), w, h >= 0, is None for Monochrome and for *)
(* the other formats Some((w / ratio_x, h / ratio_y)) exactly when w is    *)
(* divisible by ratio_x and h by ratio_y, None otherwise, with ratios      *)
(* Yuv420 (2,2), Yuv422 (2,1), Yuv444 (1,1); zero counts as divisible.     *)
(* has_chroma() is false only for Monochrome and subsample_ratio() is None *)
(* exactly then.                                                           *)
C19_ChromaFunctions ==
    /\ (pc = "chroma" /\ last.op = "chroma_dimensions") =>
           LET ss == last.args[1]
               w == last.args[2]
               h == last.args[3]
           IN  /\ ss = "Monochrome" => last.ret = None
               /\ ss # "Monochrome" =>
                      IF w % RatioX(ss) = 0 /\ h % RatioY(ss) = 0
                      THEN last.ret = Some(<<w \div RatioX(ss), h \div RatioY(ss)>>)
                      ELSE last.ret = None
               /\ ss = "Yuv420" => (IsSome(last.ret) <=> (w % 2 = 0 /\ h % 2 = 0))
               /\ ss = "Yuv422" => (IsSome(last.ret) <=> w % 2 = 0)
               /\ ss = "Yuv444" => last.ret = Some(<<w, h>>)
    /\ (pc = "chroma" /\ last.op = "has_chroma") =>
           (last.ret <=> last.args[1] # "Monochrome")
    /\ (pc = "chroma" /\ last.op = "subsample_ratio") =>
           IF last.args[1] = "Monochrome" THEN last.ret = None
           ELSE last.ret = Some(<<RatioX(last.args[1]), RatioY(last.args[1])>>)

\* Yuv422 of an odd height: only the width has to be even
C19_Witness ==
    /\ pc = "chroma" /\ last.op = "chroma_dimensions"
    /\ last.args = <<"Yuv422", 4, 3>>
    /\ last.ret = Some(<<2, 3>>)

\* the operations that write to a plane of the frame held or of its clone
WriteOps == {"pixel_mut", "rows_mut", "copy_from_slice", "copy_from_u8_slice"}

HoldingFrame == pc = "frame"

\* the buffer of a plane of the frame held
BufferOf(h) == heap[h.buf]

(* C17: the Y, U and V planes of a frame have independent storage: a write *)
(* (pixel_mut, rows_mut, a copy_from operation) to one plane of a frame    *)
(* leaves every buffer element of the other planes of that frame           *)
(* unchanged, hence so does any sequence of writes; U and V have identical *)
(* geometry.                                                               *)
C17_SameChromaGeometry ==
    (HoldingFrame /\ Len(frame) = 3) => frame[2].geometry = frame[3].geometry

C17_OthersKept ==
    (HoldingFrame /\ last'.op \in WriteOps) =>
        LET which == last'.args[1]
            i == last'.args[2]
        IN  \A j \in DOMAIN frame :
                j # i =>
                    IF which = "frame"
                    THEN heap'[frame[j].buf] = heap[frame[j].buf]
                    ELSE IsSome(clone[j]) =>
                             heap'[clone[j][1].buf] = heap[clone[j][1].buf]

C17_IndependentPlanes == []C17_SameChromaGeometry /\ [][C17_OthersKept]_vars

\* the U plane of a frame with chroma written by copy_from_slice, Y and V still
\* zero
C17_Witness ==
    /\ HoldingFrame /\ Len(frame) = 3
    /\ last.op = "copy_from_slice" /\ last.args = <<"frame", 2>>
    /\ last.ret.tag = "Ok"
    /\ \A k \in DOMAIN BufferOf(frame[1]) : BufferOf(frame[1])[k] = PixelZero
    /\ \E k \in DOMAIN BufferOf(frame[2]) : BufferOf(frame[2])[k] # PixelZero
    /\ \A k \in DOMAIN BufferOf(frame[3]) : BufferOf(frame[3])[k] = PixelZero

(* C18: a clone of a plane or of a frame has the geometry and the buffer   *)
(* contents of the original at the moment of cloning and shares no storage *)
(* with it: a later write to the original leaves the clone unchanged and a *)
(* later write to the clone leaves the original unchanged.                 *)
C18_CloneEqual ==
    (HoldingFrame /\ last'.op \in {"frame_clone", "plane_clone"}) =>
        /\ last'.op = "frame_clone" => \A i \in DOMAIN frame : IsSome(clone'[i])
        /\ last'.op = "plane_clone" => IsSome(clone'[last'.args[1]])
        /\ \A i \in DOMAIN frame :
               IsSome(clone'[i]) =>
                   /\ clone'[i][1].geometry = frame[i].geometry
                   /\ heap'[clone'[i][1].buf] = heap[frame[i].buf]
                   /\ \A j \in DOMAIN frame : heap'[frame[j].buf] = heap[frame[j].buf]

C18_OtherSideKept ==
    (HoldingFrame /\ last'.op \in WriteOps) =>
        IF last'.args[1] = "frame"
        THEN \A i \in DOMAIN clone :
                 IsSome(clone[i]) => heap'[clone[i][1].buf] = heap[clone[i][1].buf]
        ELSE \A i \in DOMAIN frame : heap'[frame[i].buf] = heap[frame[i].buf]

C18_CloneIndependent == [][C18_CloneEqual /\ C18_OtherSideKept]_vars

\* a written luma plane was cloned and then overwritten: the clone keeps
\* what was cloned
C18_Witness ==
    /\ HoldingFrame /\ IsSome(clone[1])
    /\ last.op = "copy_from_u8_slice" /\ last.args = <<"frame", 1>>
    /\ last.ret.tag = "Ok"
    /\ \E k \in DOMAIN BufferOf(clone[1][1]) : BufferOf(clone[1][1])[k] # PixelZero
    /\ BufferOf(clone[1][1]) # BufferOf(frame[1])
    /\ clone[1][1].geometry = frame[1].geometry

Configuring == pc = "config"

Setters ==
    {"luma_padding_left", "luma_padding_right", "luma_padding_top", "luma_padding_bottom"}

(* C21: a new FrameBuilder has all four luma paddings 0; each setter sets  *)
(* its own padding to the value given and leaves width, height,            *)
(* subsampling and the other three paddings unchanged, so after any        *)
(* sequence of setter calls each padding is the value of the last call to  *)
(* its own setter, 0 if there was none; build uses exactly these values.   *)
C21_NewAndBuilt ==
    /\ (Configuring /\ last.op = "new") =>
           /\ IsSome(builder)
           /\ builder[1].width = last.args[1]
           /\ builder[1].height = last.args[2]
           /\ builder[1].subsampling = last.args[3]
           /\ builder[1].luma_padding_left = 0
           /\ builder[1].luma_padding_right = 0
           /\ builder[1].luma_padding_top = 0
           /\ builder[1].luma_padding_bottom = 0
    /\ (Configuring /\ last.op = "build" /\ last.ret.tag = "Ok") =>
           LET b == last.src[1]
               g == last.ret.val.y_plane.geometry
           IN  /\ g.width = b.width
               /\ g.height = b.height
               /\ g.pad_left = b.luma_padding_left
               /\ g.pad_right = b.luma_padding_right
               /\ g.pad_top = b.luma_padding_top
               /\ g.pad_bottom = b.luma_padding_bottom
               /\ last.ret.val.subsampling = b.subsampling

C21_SetterStep ==
    /\ (Configuring /\ last'.op \in Setters) =>
           LET b == builder[1]
               op == last'.op
               v == last'.args[1]
           IN  builder' = Some(
                   [width |-> b.width, height |-> b.height,
                    subsampling |-> b.subsampling,
                    luma_padding_left |->
                        IF op = "luma_padding_left" THEN v ELSE b.luma_padding_left,
                    luma_padding_right |->
                        IF op = "luma_padding_right" THEN v ELSE b.luma_padding_right,
                    luma_padding_top |->
                        IF op = "luma_padding_top" THEN v ELSE b.luma_padding_top,
                    luma_padding_bottom |->
                        IF op = "luma_padding_bottom" THEN v ELSE b.luma_padding_bottom])
    /\ (Configuring /\ last'.op = "build") => last'.src[1] = builder[1]

C21_BuilderSetters == []C21_NewAndBuilt /\ [][C21_SetterStep]_vars

\* right set to 1, then left set to 1, then built: both paddings are in
\* the luma plane, top and bottom are 0
C21_Witness ==
    /\ Configuring /\ last.op = "build" /\ last.ret.tag = "Ok" /\ nops = 3
    /\ last.src[1].luma_padding_left = 1 /\ last.src[1].luma_padding_right = 1
    /\ last.src[1].width = 2 /\ last.src[1].height = 1
    /\ last.ret.val.y_plane.geometry = PlaneGeometry(2, 1, 4, 1, 1, 0, 0)

\* the resolution check of build, for a builder b
C22_Unsupported(b) ==
    (b.subsampling # "Monochrome") /\
    (\/ b.width % RatioX(b.subsampling) # 0
     \/ b.height % RatioY(b.subsampling) # 0
     \/ b.luma_padding_left % RatioX(b.subsampling) # 0
     \/ b.luma_padding_right % RatioX(b.subsampling) # 0
     \/ b.luma_padding_top % RatioY(b.subsampling) # 0
     \/ b.luma_padding_bottom % RatioY(b.subsampling) # 0)

(* C22: building mutates no shared state: after a build on a builder       *)
(* state, whatever it returned, a build from the same builder state with   *)
(* other type parameters validates from scratch; its outcome follows from  *)
(* the configuration and its own parameters, not from the earlier outcome. *)
C22_Revalidates ==
    (Configuring /\ last.op = "build") =>
        LET b == last.src[1]
            kind == last.args[1]
            depth == last.args[2]
        IN  IF depth \notin 8..16
            THEN last.ret = Err(<<"UnsupportedBitDepth", depth>>)
            ELSE IF ~KindMatchesDepth(kind, depth)
            THEN last.ret = Err(<<"DataTypeMismatch">>)
            ELSE IF C22_Unsupported(b)
            THEN last.ret = Err(<<"UnsupportedResolution">>)
            ELSE last.ret.tag = "Ok"

\* a builder state built as u8 at depth 17, which failed, and the same
\* builder state built as u16 at depth 10, which succeeds
C22_Witness ==
    /\ Configuring /\ last.op = "build"
    /\ last.src[2] = Some(Err(<<"UnsupportedBitDepth", 17>>))
    /\ last.src[3] = <<1, 17, last.src[1]>>
    /\ last.src[1].luma_padding_top = 1
    /\ last.args = <<2, 10>>
    /\ last.ret.tag = "Ok"

(* C23: every plane of a freshly built frame is zero-filled: every element *)
(* of its buffer, visible or padding, is 0, and pixels() yields width *    *)
(* height zeros.                                                           *)
C23_ZeroFilled ==
    ReturnedOk =>
        \A i \in DOMAIN PlanesOf(BuiltFrame) :
            LET p == PlanesOf(BuiltFrame)[i]
                visible == pixels(p)
            IN  /\ \A k \in DOMAIN p.data : p.data[k] = 0
                /\ Len(visible) = p.geometry.width * p.geometry.height
                /\ \A k \in DOMAIN visible : visible[k] = 0

\* a 2x2 frame with chroma planes and two elements of padding on each side
C23_Witness ==
    /\ ReturnedOk
    /\ builder.width = 2 /\ builder.height = 2 /\ builder.subsampling = "Yuv420"
    /\ builder.luma_padding_left = 2 /\ builder.luma_padding_right = 2
    /\ builder.luma_padding_top = 2 /\ builder.luma_padding_bottom = 2
    /\ Len(BuiltFrame.y_plane.data) = 36
    /\ Len(PlanesOf(BuiltFrame)) = 3
    /\ Len(BuiltFrame.u_plane[1].data) = 9

\* a frame was returned to the caller of the word-sized build
WordReturnedOk == pc = "word" /\ IsSome(built) /\ built[1].tag = "Ok"

\* a sum of three that stops at the largest word
SaturatingSum(a, b, c) == IF a + b + c > UsizeMax THEN UsizeMax ELSE a + b + c

\* the rows of a buffer, padding included, by the geometry g
TotalRows(g) == SaturatingSum(g.height, g.pad_top, g.pad_bottom)

\* the offset of the first visible element by the geometry g, in unbounded
\* arithmetic
TrueOrigin(g) == g.stride * g.pad_top + g.pad_left

(* C24: the unchecked indexing of rows() and rows_mut() stays inside the   *)
(* allocation: for every luma and chroma plane build returns, origin <=    *)
(* buffer length and origin + (height - 1) * stride + width <= buffer      *)
(* length.                                                                 *)
C24_RowsInAllocation ==
    WordReturnedOk =>
        \A i \in DOMAIN PlanesOf(built[1].val) :
            LET p == PlanesOf(built[1].val)[i]
                g == p.geometry
            IN  /\ TrueOrigin(g) <= Len(p.data)
                /\ TrueOrigin(g) + (g.height - 1) * g.stride + g.width <= Len(p.data)

(* C25: build completes without an arithmetic overflow failure for every   *)
(* width, height and paddings of the machine word: the stride and the row  *)
(* count saturate, and the buffer size stride * rows does not wrap: a      *)
(* plane returned holds stride * rows elements, and a build that panics    *)
(* does so in the allocator, on a size that fits the word.                 *)
C25_NoOverflow ==
    (pc = "word" /\ IsSome(built)) =>
        LET stride == SaturatingSum(builder.width, builder.luma_padding_left,
                                    builder.luma_padding_right)
            total == SaturatingSum(builder.height, builder.luma_padding_top,
                                   builder.luma_padding_bottom)
        IN  CASE built[1].tag = "Ok" ->
                     /\ built[1].val.y_plane.geometry.stride = stride
                     /\ \A i \in DOMAIN PlanesOf(built[1].val) :
                            LET p == PlanesOf(built[1].val)[i] IN
                            /\ p.geometry.stride =
                                   SaturatingSum(p.geometry.width, p.geometry.pad_left,
                                                 p.geometry.pad_right)
                            /\ Len(p.data) = p.geometry.stride * TotalRows(p.geometry)
              [] built[1].tag = "Panic" -> stride * total <= UsizeMax
              [] OTHER -> TRUE

(* C26: pixel(x, y) and pixel_mut(x, y) never fail, and return None for    *)
(* every coordinate whose linear index origin + stride * y + x, taken in   *)
(* unbounded arithmetic, is at or beyond the buffer length; stated for the *)
(* planes whose buffer holds stride * rows elements.                       *)
C26_PixelNone ==
    (WordReturnedOk /\ last.op \in {"pixel", "pixel_mut"}) =>
        LET p == PlanesOf(built[1].val)[last.args[1]]
            g == p.geometry
            index == TrueOrigin(g) + g.stride * last.args[3] + last.args[2]
        IN  Len(p.data) = g.stride * TotalRows(g) =>
                /\ last.ret.tag = "Ok"
                /\ index >= Len(p.data) => last.ret.val = None

CopyOps == {"copy_from_slice", "copy_from_u8_slice", "copy_from_u8_slice_with_stride"}

(* C27: a copy that returns an error, DataLength or InvalidStride, from    *)
(* copy_from_slice, copy_from_u8_slice or copy_from_u8_slice_with_stride   *)
(* changes nothing: the buffer and the geometry are as before the call.    *)
C27_Step ==
    (Holding /\ nops' = nops + 1 /\ last'.op \in CopyOps /\ last'.ret.tag = "Err") =>
        /\ last'.ret.val[1] \in {"DataLength", "InvalidStride"}
        /\ plane'.geometry = plane.geometry
        /\ Len(plane'.data) = Len(plane.data)
        /\ \A k \in DOMAIN plane.data : plane'.data[k] = plane.data[k]

C27_FailedCopyKeeps == [][C27_Step]_vars

\* a padded plane that holds written elements, after a copy_from_slice of a
\* non-empty source of the wrong length
C27_Witness ==
    /\ Holding /\ nops = 2
    /\ last.op = "copy_from_slice" /\ last.ret.tag = "Err"
    /\ last.ret.val[1] = "DataLength"
    /\ Len(last.src) > 0
    /\ Geo.pad_left = 1 /\ Geo.pad_top = 1
    /\ Element(LinearIndex(0, 0)) # 0

VisibleWriteOps == {"row_mut", "rows_mut", "pixels_mut"} \cup CopyOps

\* the buffer offset index is an element of the visible rectangle
Visible(index) ==
    \E x \in 0..(Geo.width - 1), y \in 0..(Geo.height - 1) : index = LinearIndex(x, y)

(* C28: the visible-area operations never touch padding: a write through   *)
(* row_mut, rows_mut, pixels_mut or one of the three copies leaves every   *)
(* buffer element outside the visible rectangle as it was, and so does any *)
(* sequence of them.                                                       *)
C28_Step ==
    (Holding /\ nops' = nops + 1 /\ last'.op \in VisibleWriteOps) =>
        /\ plane'.geometry = plane.geometry
        /\ Len(plane'.data) = Len(plane.data)
        /\ \A k \in DOMAIN plane.data :
               ~Visible(k - 1) => plane'.data[k] = plane.data[k]

C28_PaddingKept == [][C28_Step]_vars

\* a 2x2 plane padded by one on every side, after two operations, the last
\* a rows_mut: the visible rectangle is written, the padding is still zero
C28_Witness ==
    /\ Holding /\ nops = 2
    /\ last.op = "rows_mut"
    /\ Geo = PlaneGeometry(2, 2, 4, 1, 1, 1, 1)
    /\ \A x \in 0..1, y \in 0..1 : Element(LinearIndex(x, y)) # 0
    /\ \A k \in DOMAIN plane.data : ~Visible(k - 1) => plane.data[k] = 0

(* C29: pixel_mut(x, y) with x < width and y < height changes exactly the  *)
(* element that pixel(x, y) and row(y)[x] then return, and nothing else;   *)
(* row_mut(y) changes only the width elements of the visible row y.        *)
C29_ReadBack ==
    (Holding /\ last.op = "pixel_mut"
        /\ last.args[1] < Geo.width /\ last.args[2] < Geo.height) =>
        /\ last.ret = Ok(Some(last.src[1]))
        /\ pixel(plane, last.args[1], last.args[2], TRUE) = Ok(Some(last.src[1]))
        /\ row(plane, last.args[2]) # None
        /\ row(plane, last.args[2])[1][last.args[1] + 1] = last.src[1]

C29_Step ==
    /\ (Holding /\ nops' = nops + 1 /\ last'.op = "pixel_mut"
           /\ last'.args[1] < Geo.width /\ last'.args[2] < Geo.height) =>
           /\ plane'.geometry = plane.geometry
           /\ Len(plane'.data) = Len(plane.data)
           /\ \A k \in DOMAIN plane.data :
                  plane'.data[k] =
                      IF k - 1 = LinearIndex(last'.args[1], last'.args[2])
                      THEN last'.src[1] ELSE plane.data[k]
    /\ (Holding /\ nops' = nops + 1 /\ last'.op = "row_mut") =>
           /\ plane'.geometry = plane.geometry
           /\ Len(plane'.data) = Len(plane.data)
           /\ \A k \in DOMAIN plane.data :
                  plane'.data[k] =
                      IF /\ last'.args[1] < Geo.height
                         /\ \E x \in 0..(Geo.width - 1) :
                                k - 1 = LinearIndex(x, last'.args[1])
                      THEN last'.src[k - LinearIndex(0, last'.args[1])]
                      ELSE plane.data[k]

C29_SingleElement == []C29_ReadBack /\ [][C29_Step]_vars

\* pixel_mut(1, 1) on a 2x2 plane padded by one on every side, after a
\* row_mut: the element written differs from its neighbours
C29_Witness ==
    /\ Holding /\ nops = 2
    /\ last.op = "pixel_mut" /\ last.args = <<1, 1>>
    /\ Geo = PlaneGeometry(2, 2, 4, 1, 1, 1, 1)
    /\ Element(LinearIndex(1, 1)) = last.src[1]
    /\ Element(LinearIndex(0, 1)) # last.src[1]
    /\ Element(LinearIndex(0, 0)) # 0

(* C30: on a plane of the 2-byte kind, of width W and height H,            *)
(* copy_from_u8_slice_with_stride succeeds when it is given S * H * 2      *)
(* bytes, S >= W elements per input row, together with the input row       *)
(* stride in bytes, 2 * S.                                                 *)
C30_ByteStride ==
    (Holding /\ last.op = "copy_from_u8_slice_with_stride" /\ PlaneT = 2) =>
        \A S \in Geo.width..MaxStride :
            (last.args[1] = 2 * S /\ Len(last.src) = S * Geo.height * 2) =>
                last.ret.tag = "Ok"

=============================================================================
